---- MODULE Spec2Model ----
(***************************************************************************)
(* A model of the creational-patterns examples of src/main.go:            *)
(*   - the lazy singleton, getSingleton(), guarded by a sync.Once;         *)
(*   - the prototype tree, File / Folder with Clone, WriteEntry, String;   *)
(*   - the abstract factory, AuthFactory with GoogleAuth / YandexAuth.     *)
(* The three parts share no state in the program; each has a               *)
(* specification of its own (SpecOnce, SpecClone and SpecRender, SpecAuth)  *)
(* over the variables it uses, the others staying at their initial values.  *)
(***************************************************************************)
EXTENDS Integers, Sequences, FiniteSets, TLC

VARIABLES
    \* ---- singleton (src/main.go:211-226)
    pc,         \* pc[p]: where goroutine p stands inside getSingleton()
    singleton,  \* the package variable singleton: 0 is nil, else an address
    onceDone,   \* once.done, the atomic flag of sync.Once
    onceM,      \* once.m, the mutex of sync.Once: 0 is free, else its holder
    initRuns,   \* how many times the func literal passed to once.Do has run
    ret,        \* ret[p]: the results of the calls p has completed, in order
    \* ---- prototype tree (src/main.go:140-209)
    heap,       \* the allocated File / Folder objects and child arrays
    treeOp,     \* the last tree operation and what it gave its caller
    \* ---- abstract factory (src/main.go:12-87)
    providers,  \* the Provider values AuthFactory has returned so far
    products,   \* the Customer / Seller objects allocated so far
    authOp      \* the last factory operation and what it gave its caller

onceVars == <<pc, singleton, onceDone, onceM, initRuns, ret>>
treeVars == <<heap, treeOp>>
authVars == <<providers, products, authOp>>
vars == <<pc, singleton, onceDone, onceM, initRuns, ret,
          heap, treeOp, providers, products, authOp>>

(***************************************************************************)
(* Bounds of the model.                                                    *)
(***************************************************************************)
\* goroutines calling getSingleton() (main starts 10)
NProcs == 3
\* calls of getSingleton() each goroutine makes
MaxCalls == 2

Procs == 1..NProcs

(***************************************************************************)
(* The singleton.  getSingleton() is once.Do(func) followed by a read of   *)
(* singleton.  once.Do is the standard library's: a fast path that loads   *)
(* once.done, and a slow path that locks once.m, loads once.done again,    *)
(* runs the function, stores once.done = 1 and unlocks.                    *)
(***************************************************************************)
InitOnce ==
    /\ pc = [p \in Procs |-> "idle"]
    /\ singleton = 0
    /\ onceDone = 0
    /\ onceM = 0
    /\ initRuns = 0
    /\ ret = [p \in Procs |-> <<>>]

\* goroutine p enters getSingleton()
Call(p) ==
    /\ pc[p] = "idle"
    /\ Len(ret[p]) < MaxCalls
    /\ pc' = [pc EXCEPT ![p] = "fast"]
    /\ UNCHANGED <<singleton, onceDone, onceM, initRuns, ret, treeVars, authVars>>

\* once.Do: if o.done.Load() == 0 { o.doSlow(f) }
DoFast(p) ==
    /\ pc[p] = "fast"
    /\ pc' = [pc EXCEPT ![p] = IF onceDone = 0 THEN "lock" ELSE "ret"]
    /\ UNCHANGED <<singleton, onceDone, onceM, initRuns, ret, treeVars, authVars>>

\* doSlow: o.m.Lock() blocks while another goroutine holds the mutex
DoLock(p) ==
    /\ pc[p] = "lock"
    /\ onceM = 0
    /\ onceM' = p
    /\ pc' = [pc EXCEPT ![p] = "check"]
    /\ UNCHANGED <<singleton, onceDone, initRuns, ret, treeVars, authVars>>

\* faulty variant: the second load of once.done, under the mutex, is left out
DoCheck_NoRecheck(p) ==
    /\ pc[p] = "check"
    /\ pc' = [pc EXCEPT ![p] = "init"]
    /\ UNCHANGED <<singleton, onceDone, onceM, initRuns, ret, treeVars, authVars>>

\* faulty variant: once.done is set before the function has run
DoCheck_StoreEarly(p) ==
    /\ pc[p] = "check"
    /\ pc' = [pc EXCEPT ![p] = IF onceDone = 0 THEN "init" ELSE "unlock"]
    /\ onceDone' = 1
    /\ UNCHANGED <<singleton, onceM, initRuns, ret, treeVars, authVars>>

\* doSlow: if o.done.Load() == 0 { defer o.done.Store(1); f() }
DoCheck(p) ==
    /\ pc[p] = "check"
    /\ pc' = [pc EXCEPT ![p] = IF onceDone = 0 THEN "init" ELSE "unlock"]
    /\ UNCHANGED <<singleton, onceDone, onceM, initRuns, ret, treeVars, authVars>>

\* the func literal: singleton = &singleInstance{}.  singleInstance is a
\* zero-size type, so the address of a new one may equal that of an earlier one.
InitBody(p) ==
    /\ pc[p] = "init"
    /\ \E a \in 1..(initRuns + 1) : singleton' = a
    /\ initRuns' = initRuns + 1
    /\ pc' = [pc EXCEPT ![p] = "store"]
    /\ UNCHANGED <<onceDone, onceM, ret, treeVars, authVars>>

\* doSlow: the deferred o.done.Store(1)
DoStore(p) ==
    /\ pc[p] = "store"
    /\ onceDone' = 1
    /\ pc' = [pc EXCEPT ![p] = "unlock"]
    /\ UNCHANGED <<singleton, onceM, initRuns, ret, treeVars, authVars>>

\* faulty variant: doSlow returns without releasing the mutex
DoUnlock_NoRelease(p) ==
    /\ pc[p] = "unlock"
    /\ pc' = [pc EXCEPT ![p] = "ret"]
    /\ UNCHANGED <<singleton, onceDone, onceM, initRuns, ret, treeVars, authVars>>

\* doSlow: the deferred o.m.Unlock()
DoUnlock(p) ==
    /\ pc[p] = "unlock"
    /\ onceM' = 0
    /\ pc' = [pc EXCEPT ![p] = "ret"]
    /\ UNCHANGED <<singleton, onceDone, initRuns, ret, treeVars, authVars>>

\* return singleton
Return(p) ==
    /\ pc[p] = "ret"
    /\ ret' = [ret EXCEPT ![p] = Append(@, singleton)]
    /\ pc' = [pc EXCEPT ![p] = "idle"]
    /\ UNCHANGED <<singleton, onceDone, onceM, initRuns, treeVars, authVars>>

\* the steps of a call once it is entered
Run(p) ==
    \/ DoFast(p)
    \/ DoLock(p)
    \/ DoCheck(p)
    \/ InitBody(p)
    \/ DoStore(p)
    \/ DoUnlock(p)
    \/ Return(p)

NextOnce == \E p \in Procs : Call(p) \/ Run(p)

(***************************************************************************)
(* The prototype tree.  The heap holds the File and Folder objects         *)
(* (nodes, addressed from 1) and the backing arrays of the Children        *)
(* slices (arrs, addressed from 1).  A string is a sequence of characters. *)
(***************************************************************************)
\* nodes of the tree the program starts with
MaxNodes == 4
\* trees in the heap: the first one and its clones
MaxTrees == 2
\* nesting levels a rendering is started at: 0..MaxLevel
MaxLevel == 1

\* the names given to files and folders
Names == {<<"a">>, <<"b", "b">>}

\* a nil slice, and the empty slice make([]Node, 0) returns: no backing array
NilSlice == [ptr |-> 0, len |-> 0]

\* type File struct { Name string }
File(name) == [kind |-> "File", Name |-> name, Children |-> NilSlice]

\* type Folder struct { File; Children []Node }
Folder(name, slice) == [kind |-> "Folder", Name |-> name, Children |-> slice]

\* the elements of the Children slice of node a
Elems(h, a) ==
    LET s == h.nodes[a].Children
    IN  IF s.ptr = 0 THEN <<>> ELSE SubSeq(h.arrs[s.ptr], 1, s.len)

\* the nodes no Children slice holds: the roots of the trees in the heap
Roots(h) ==
    {a \in 1..Len(h.nodes) :
        \A b \in 1..Len(h.nodes) : \A i \in 1..Len(Elems(h, b)) : Elems(h, b)[i] # a}

(***************************************************************************)
(* The trees the program may build with composite literals, as main does   *)
(* (src/main.go:237-250): nodes 1..n in pre-order, node 1 the root, par[i] *)
(* the folder that holds node i, the children of a folder in the order of  *)
(* their addresses.  A node that holds children is a Folder; a node that   *)
(* holds none is a File or a Folder without children.                      *)
(***************************************************************************)
RECURSIVE IsAncestor(_, _, _)
IsAncestor(par, a, b) ==
    \/ a = b
    \/ b > 1 /\ IsAncestor(par, a, par[b])

Shapes(n) ==
    {par \in [2..n -> 1..n] :
        \A i \in 2..n : par[i] < i /\ IsAncestor(par, par[i], i - 1)}

\* the members of a set of addresses, in increasing order
Sorted(S) ==
    [k \in 1..Cardinality(S) |-> CHOOSE x \in S : Cardinality({y \in S : y < x}) = k - 1]

BuildHeap(n, par, kind, name) ==
    LET kids(a) == Sorted({i \in 2..n : par[i] = a})
        holders == Sorted({a \in 1..n : kids(a) # <<>>})
        arrOf(a) == CHOOSE k \in 1..Len(holders) : holders[k] = a
        node(a) ==
            IF kind[a] = "File" THEN File(name[a])
            ELSE IF kids(a) = <<>> THEN Folder(name[a], NilSlice)
            ELSE Folder(name[a], [ptr |-> arrOf(a), len |-> Len(kids(a))])
    IN  [nodes |-> [a \in 1..n |-> node(a)],
         arrs  |-> [k \in 1..Len(holders) |-> kids(holders[k])]]

\* which nodes are Files and which Folders, for a shape
Kinds(n, par) ==
    {k \in [1..n -> {"File", "Folder"}] : \A i \in 2..n : k[par[i]] = "Folder"}

\* the names along the pre-order: all the same, or alternating
Namings(n) ==
    {[i \in 1..n |-> x] : x \in Names}
        \cup {[i \in 1..n |-> IF i % 2 = 1 THEN x ELSE y] : x \in Names, y \in Names}

InitHeaps ==
    UNION {UNION {
        {BuildHeap(n, par, kind, name) : kind \in Kinds(n, par), name \in Namings(n)}
        : par \in Shapes(n)} : n \in 1..MaxNodes}

(***************************************************************************)
(* Sinks: the io.Writer a tree is rendered to.  A sink counts the writes   *)
(* it is handed; it rejects write number failAt with an error, taking no   *)
(* byte of it, and accepts every other write whole.  failAt = 0 never      *)
(* rejects: that is strings.Builder, whose Write always returns nil.       *)
(***************************************************************************)
Sink(failAt) == [out |-> <<>>, writes |-> 0, failAt |-> failAt, rejected |-> FALSE]

\* var sb strings.Builder
Builder == Sink(0)

\* the error value sink w returns for the write it rejects (0 is nil)
ErrOf(w) == 100 + w.failAt

\* w.Write(s)
SinkWrite(w, s) ==
    IF w.failAt # 0 /\ w.writes + 1 = w.failAt
    THEN [w |-> [w EXCEPT !.writes = @ + 1, !.rejected = TRUE], err |-> ErrOf(w)]
    ELSE [w |-> [w EXCEPT !.writes = @ + 1, !.out = @ \o s], err |-> 0]

\* the indentation unit of File.WriteEntry: "    "
IndentUnit == <<" ", " ", " ", " ">>

\* strings.Repeat(s, count)
RECURSIVE Repeat(_, _)
Repeat(s, count) == IF count = 0 THEN <<>> ELSE s \o Repeat(s, count - 1)

\* func (f *File) WriteEntry(w io.Writer, opts WriteOpts) error
FileWriteEntry(h, w, a, level) ==
    SinkWrite(w, Repeat(IndentUnit, level) \o h.nodes[a].Name \o <<"\n">>)

RECURSIVE WriteEntry(_, _, _, _)
RECURSIVE WriteChildren(_, _, _, _, _)

\* faulty variant: the loop does not stop at a child's error
WriteChildren_IgnoreErr(h, w, kids, i, level) ==
    IF i > Len(kids) THEN [w |-> w, err |-> 0]
    ELSE WriteChildren(h, WriteEntry(h, w, kids[i], level).w, kids, i + 1, level)

\* Folder.WriteEntry's loop: for _, v := range f.Children { ... }, from child i
WriteChildren(h, w, kids, i, level) ==
    IF i > Len(kids) THEN [w |-> w, err |-> 0]
    ELSE LET r == WriteEntry(h, w, kids[i], level)
         IN  IF r.err # 0 THEN r
             ELSE WriteChildren(h, r.w, kids, i + 1, level)

\* faulty variant: opts.Level += 1 is left out
FolderWriteEntry_NoLevelInc(h, w, a, level) ==
    LET r == FileWriteEntry(h, w, a, level)
    IN  IF r.err # 0 THEN r
        ELSE WriteChildren(h, r.w, Elems(h, a), 1, level)

\* faulty variant: the error of the folder's own line is not looked at
FolderWriteEntry_DropOwnErr(h, w, a, level) ==
    WriteChildren(h, FileWriteEntry(h, w, a, level).w, Elems(h, a), 1, level + 1)

\* func (f *Folder) WriteEntry(w io.Writer, opts WriteOpts) error
FolderWriteEntry(h, w, a, level) ==
    LET r == FileWriteEntry(h, w, a, level)
    IN  IF r.err # 0 THEN r
        ELSE WriteChildren(h, r.w, Elems(h, a), 1, level + 1)

\* v.WriteEntry(w, opts) on a Node: the method of v's dynamic type
WriteEntry(h, w, a, level) ==
    IF h.nodes[a].kind = "File" THEN FileWriteEntry(h, w, a, level)
    ELSE FolderWriteEntry(h, w, a, level)

\* func (f *Folder) String() string: WriteEntry's error is not looked at
FolderString(h, a) == FolderWriteEntry(h, Builder, a, 0).w.out

(***************************************************************************)
(* Clone.  An allocation appends to the heap; the address of the new       *)
(* object is its index.  A clone operation gives back the heap after it    *)
(* and the address of the copy.                                            *)
(***************************************************************************)
\* &File{...} or &Folder{...}: a new node object
AllocNode(h, node) ==
    [h |-> [h EXCEPT !.nodes = Append(@, node)], addr |-> Len(h.nodes) + 1]

\* an array of n nil entries
RECURSIVE NilArray(_)
NilArray(n) == IF n = 0 THEN <<>> ELSE Append(NilArray(n - 1), 0)

\* make([]Node, n): a slice over a new array of n nil entries, none for n = 0
MakeSlice(h, n) ==
    IF n = 0 THEN [h |-> h, slice |-> NilSlice]
    ELSE [h |-> [h EXCEPT !.arrs = Append(@, NilArray(n))],
          slice |-> [ptr |-> Len(h.arrs) + 1, len |-> n]]

\* func (f *File) Clone() Node
FileClone(h, a) == AllocNode(h, File(h.nodes[a].Name))

RECURSIVE CloneNode(_, _)
RECURSIVE CloneChildren(_, _, _, _)

\* faulty variant: the children are copied in reverse order
CloneChildren_Reversed(h, kids, i, ptr) ==
    IF i > Len(kids) THEN h
    ELSE LET r == CloneNode(h, kids[Len(kids) + 1 - i])
         IN  CloneChildren([r.h EXCEPT !.arrs[ptr][i] = r.addr], kids, i + 1, ptr)

\* faulty variant: clone.Children[i] = v, the child itself and not its clone
CloneChildren_Shallow(h, kids, i, ptr) ==
    IF i > Len(kids) THEN h
    ELSE CloneChildren([h EXCEPT !.arrs[ptr][i] = kids[i]], kids, i + 1, ptr)

\* Folder.Clone's loop: for i, v := range f.Children { clone.Children[i] = v.Clone() }
CloneChildren(h, kids, i, ptr) ==
    IF i > Len(kids) THEN h
    ELSE LET r == CloneNode(h, kids[i])
         IN  CloneChildren([r.h EXCEPT !.arrs[ptr][i] = r.addr], kids, i + 1, ptr)

\* func (f *Folder) Clone() Node
FolderClone(h, a) ==
    LET kids == Elems(h, a)
        m == MakeSlice(h, Len(kids))
        c == AllocNode(m.h, Folder(h.nodes[a].Name, m.slice))
    IN  [h |-> CloneChildren(c.h, kids, 1, m.slice.ptr), addr |-> c.addr]

\* v.Clone() on a Node: the method of v's dynamic type
CloneNode(h, a) ==
    IF h.nodes[a].kind = "File" THEN FileClone(h, a) ELSE FolderClone(h, a)

(***************************************************************************)
(* The operations on trees.  treeOp records the last one: its arguments,   *)
(* the sink as the operation left it, and what the caller got back: err    *)
(* (WriteEntry), text (String), dst (Clone); nodesBefore and arrsBefore    *)
(* are the sizes of the heap when a Clone began.                           *)
(***************************************************************************)
TreeOp(op, root, level, sink, err, text, dst, nb, ab) ==
    [op |-> op, root |-> root, level |-> level, sink |-> sink, err |-> err,
     text |-> text, dst |-> dst, nodesBefore |-> nb, arrsBefore |-> ab]

NoTreeOp == TreeOp("none", 0, 0, Builder, 0, <<>>, 0, 0, 0)

\* the number of nodes of the tree rooted at a
RECURSIVE Size(_, _)
RECURSIVE SizeAll(_, _, _)
SizeAll(h, kids, i) ==
    IF i > Len(kids) THEN 0 ELSE Size(h, kids[i]) + SizeAll(h, kids, i + 1)
Size(h, a) == 1 + SizeAll(h, Elems(h, a), 1)

InitTree ==
    /\ heap \in InitHeaps
    /\ treeOp = NoTreeOp

\* a.Clone() on a node of a tree
DoClone(a) ==
    /\ Cardinality(Roots(heap)) < MaxTrees
    /\ LET r == CloneNode(heap, a)
       IN  /\ heap' = r.h
           /\ treeOp' = TreeOp("Clone", a, 0, Builder, 0, <<>>, r.addr,
                               Len(heap.nodes), Len(heap.arrs))
    /\ UNCHANGED <<onceVars, authVars>>

\* a.WriteEntry(w, WriteOpts{Level: level}) on a sink that rejects write failAt
DoWriteEntry(a, level, failAt) ==
    /\ LET r == WriteEntry(heap, Sink(failAt), a, level)
       IN  treeOp' = TreeOp("WriteEntry", a, level, r.w, r.err, <<>>, 0, 0, 0)
    /\ UNCHANGED <<heap, onceVars, authVars>>

\* a.String() on a Folder; sink is the strings.Builder as String left it
DoString(a) ==
    /\ heap.nodes[a].kind = "Folder"
    /\ treeOp' = TreeOp("String", a, 0, FolderWriteEntry(heap, Builder, a, 0).w,
                        0, FolderString(heap, a), 0, 0, 0)
    /\ UNCHANGED <<heap, onceVars, authVars>>

\* Clone, on any node of the heap
NextClone == \E a \in 1..Len(heap.nodes) : DoClone(a)

\* WriteEntry and String, on the root of the tree
NextRender ==
    \/ \E a \in Roots(heap), level \in 0..MaxLevel :
          \E failAt \in 0..(Size(heap, a) + 1) : DoWriteEntry(a, level, failAt)
    \/ \E a \in Roots(heap) : DoString(a)

(***************************************************************************)
(* The abstract factory.  GoogleAuth and YandexAuth are zero-size types: a *)
(* Provider is modelled by its dynamic type, with the string it was asked  *)
(* for.  Customer and Seller objects are allocated: products holds them in *)
(* the order of allocation, the address of an object being its index.      *)
(***************************************************************************)
\* Customer and Seller objects the program allocates
MaxProducts == 4

\* the strings AuthFactory is called with
ProviderArgs == {"google", "yandex", "Google", "yahoo", ""}

\* func (c *Customer) SetName(name string), func (c *Seller) SetName(name string)
SetName(obj, name) == [obj EXCEPT !.Name = name]

\* func (c *Customer) String() string
CustomerString(c) == "Customer: " \o c.Name

\* func (c *Seller) String() string
SellerString(c) == "Seller: " \o c.Name

\* var customer Customer
ZeroCustomer == [type |-> "Customer", Name |-> ""]

\* var seller Seller
ZeroSeller == [type |-> "Seller", Name |-> ""]

\* faulty variant: the name of the other provider
YandexNewCustomer_GoogleName == SetName(ZeroCustomer, "Google Customer")

\* func (y *YandexAuth) NewCustomer() *Customer
YandexNewCustomer == SetName(ZeroCustomer, "Yandex Customer")

\* func (y *YandexAuth) NewSeller() *Seller
YandexNewSeller == SetName(ZeroSeller, "Yandex Seller")

\* func (g *GoogleAuth) NewCustomer() *Customer
GoogleNewCustomer == SetName(ZeroCustomer, "Google Customer")

\* func (g *GoogleAuth) NewSeller() *Seller
GoogleNewSeller == SetName(ZeroSeller, "Google Seller")

\* faulty variant: an unknown provider falls back to Google
AuthFactory_DefaultGoogle(provider) ==
    CASE provider = "yandex" -> [panic |-> FALSE, type |-> "YandexAuth", msg |-> ""]
      [] OTHER -> [panic |-> FALSE, type |-> "GoogleAuth", msg |-> ""]

\* func AuthFactory(provider string) Provider
AuthFactory(provider) ==
    CASE provider = "google" -> [panic |-> FALSE, type |-> "GoogleAuth", msg |-> ""]
      [] provider = "yandex" -> [panic |-> FALSE, type |-> "YandexAuth", msg |-> ""]
      [] OTHER -> [panic |-> TRUE, type |-> "none",
                   msg |-> "unknown provider " \o provider]

\* p.NewCustomer() on a Provider: the method of p's dynamic type
NewCustomer(type) ==
    IF type = "GoogleAuth" THEN GoogleNewCustomer ELSE YandexNewCustomer

\* p.NewSeller() on a Provider: the method of p's dynamic type
NewSeller(type) ==
    IF type = "GoogleAuth" THEN GoogleNewSeller ELSE YandexNewSeller

\* authOp: the last call, its argument, whether it panicked, the Provider type
\* or the object address it returned, and the number of objects before it
AuthOp(fn, arg, panicked, type, addr, before) ==
    [fn |-> fn, arg |-> arg, panicked |-> panicked, type |-> type,
     addr |-> addr, before |-> before]

InitAuth ==
    /\ providers = {}
    /\ products = <<>>
    /\ authOp = AuthOp("none", "", FALSE, "none", 0, 0)

\* AuthFactory(s); a panic ends the program
DoAuthFactory(s) ==
    /\ ~authOp.panicked
    /\ LET r == AuthFactory(s)
       IN  /\ authOp' = AuthOp("AuthFactory", s, r.panic, r.type, 0, Len(products))
           /\ providers' = IF r.panic THEN providers
                           ELSE providers \cup {[type |-> r.type, arg |-> s]}
    /\ UNCHANGED <<products, onceVars, treeVars>>

\* f.NewCustomer() on a Provider f the program holds: return &customer
DoNewCustomer(f) ==
    /\ ~authOp.panicked
    /\ Len(products) < MaxProducts
    /\ products' = Append(products, [obj |-> NewCustomer(f.type), by |-> f])
    /\ authOp' = AuthOp("NewCustomer", f.arg, FALSE, f.type,
                        Len(products) + 1, Len(products))
    /\ UNCHANGED <<providers, onceVars, treeVars>>

\* f.NewSeller() on a Provider f the program holds: return &seller
DoNewSeller(f) ==
    /\ ~authOp.panicked
    /\ Len(products) < MaxProducts
    /\ products' = Append(products, [obj |-> NewSeller(f.type), by |-> f])
    /\ authOp' = AuthOp("NewSeller", f.arg, FALSE, f.type,
                        Len(products) + 1, Len(products))
    /\ UNCHANGED <<providers, onceVars, treeVars>>

NextAuth ==
    \/ \E s \in ProviderArgs : DoAuthFactory(s)
    \/ \E f \in providers : DoNewCustomer(f)
    \/ \E f \in providers : DoNewSeller(f)

(***************************************************************************)
(* The specifications: one for each part, the other parts at rest.         *)
(***************************************************************************)
TreeAtRest ==
    /\ heap = [nodes |-> <<>>, arrs |-> <<>>]
    /\ treeOp = NoTreeOp

InitSpecOnce == InitOnce /\ TreeAtRest /\ InitAuth

SpecOnce == InitSpecOnce /\ [][NextOnce]_vars

\* a goroutine inside getSingleton() keeps being scheduled
FairSpecOnce == SpecOnce /\ \A p \in Procs : WF_vars(Run(p))

InitSpecTree == InitOnce /\ InitAuth /\ InitTree

\* Clone leaves nothing but new objects in the heap, and WriteEntry and String
\* leave the heap alone: the two are followed apart, from every tree
SpecClone == InitSpecTree /\ [][NextClone]_vars

SpecRender == InitSpecTree /\ [][NextRender]_vars

InitSpecAuth == InitOnce /\ TreeAtRest /\ InitAuth

SpecAuth == InitSpecAuth /\ [][NextAuth]_vars

(***************************************************************************)
(* The singleton's properties.                                             *)
(***************************************************************************)
\* the values the calls completed so far have returned
AllReturned == UNION {{ret[p][i] : i \in 1..Len(ret[p])} : p \in Procs}

\* C1: under every interleaving of the goroutines' calls the initializer body
\* runs exactly once (never twice, and once before any call returns), and all
\* the calls, first and later, return the same instance reference.
C1_InitOnceSameInstance ==
    /\ initRuns <= 1
    /\ Cardinality(AllReturned) <= 1
    /\ \A p \in Procs : (pc[p] = "ret" \/ ret[p] # <<>>) => initRuns = 1

\* one goroutine has returned from its first call while all the others, which
\* entered before the initialization was complete, are in the slow path
C1_Witness ==
    \E p \in Procs :
        /\ Len(ret[p]) = 1
        /\ \A q \in Procs \ {p} :
              Len(ret[q]) = 0 /\ pc[q] \in {"lock", "check", "unlock"}

\* C2: no call returns before the initializer has completed: a call that is
\* about to return finds singleton set and once.done stored, and no call has
\* returned nil.
C2_NeverNil ==
    /\ 0 \notin AllReturned
    /\ \A p \in Procs : pc[p] = "ret" => singleton # 0 /\ onceDone = 1

\* a call has returned the instance while another goroutine is still inside
\* its first call, waiting for the mutex
C2_Witness ==
    \E p \in Procs, q \in Procs :
        /\ p # q
        /\ ret[p] # <<>> /\ ret[p][1] # 0
        /\ Len(ret[q]) = 0 /\ pc[q] = "lock"

\* C10: under fair scheduling every call of getSingleton() returns; a caller
\* that finds once.done set goes straight to the return, and a caller that
\* waits for the mutex waits for a goroutine that is inside the slow path of
\* once.Do, the one running the initializer or one about to unlock.
C10_EveryCallReturns ==
    /\ \A p \in Procs : (pc[p] # "idle") ~> (pc[p] = "idle")
    /\ [][\A p \in Procs :
            (pc[p] = "fast" /\ onceDone = 1 /\ pc'[p] # pc[p]) => pc'[p] = "ret"]_vars
    /\ [](\A p \in Procs : (pc[p] = "lock" /\ onceM # 0) =>
              pc[onceM] \in {"check", "init", "store", "unlock"})

\* a caller waits for the mutex while another runs the initializer
C10_Witness ==
    \E p \in Procs, q \in Procs :
        pc[p] \in {"init", "store"} /\ pc[q] = "lock"

(***************************************************************************)
(* The tree's properties.                                                  *)
(***************************************************************************)
\* the node objects of the tree rooted at a
RECURSIVE Reach(_, _)
Reach(h, a) == {a} \cup UNION {Reach(h, Elems(h, a)[i]) : i \in 1..Len(Elems(h, a))}

\* the backing arrays of the Children slices of the tree rooted at a
ReachArrs(h, a) == {h.nodes[b].Children.ptr : b \in Reach(h, a)} \ {0}

\* the text a.WriteEntry writes from level 0 to a sink that accepts every write
Render(h, a) == WriteEntry(h, Builder, a, 0).w.out

\* same name, same number of children, the same at every child in order
RECURSIVE SameShape(_, _, _)
SameShape(h, a, b) ==
    /\ h.nodes[a].Name = h.nodes[b].Name
    /\ Len(Elems(h, a)) = Len(Elems(h, b))
    /\ \A i \in 1..Len(Elems(h, a)) : SameShape(h, Elems(h, a)[i], Elems(h, b)[i])

\* C3: the clone of a tree renders from level 0 to the same text as the tree,
\* and has the same name, number of children and child order at every depth;
\* a Folder without children clones to a Folder without children.
C3_CloneRendersSame ==
    treeOp.op = "Clone" =>
        /\ Render(heap, treeOp.dst) = Render(heap, treeOp.root)
        /\ SameShape(heap, treeOp.root, treeOp.dst)
        /\ heap.nodes[treeOp.dst].kind = heap.nodes[treeOp.root].kind

\* a folder was cloned that holds a folder without children and a folder with one
C3_Witness ==
    /\ treeOp.op = "Clone"
    /\ \E i \in 1..Len(Elems(heap, treeOp.root)), j \in 1..Len(Elems(heap, treeOp.root)) :
          /\ i < j
          /\ heap.nodes[Elems(heap, treeOp.root)[i]].kind = "Folder"
          /\ Elems(heap, Elems(heap, treeOp.root)[i]) = <<>>
          /\ Elems(heap, Elems(heap, treeOp.root)[j]) # <<>>
          /\ heap.nodes[Elems(heap, treeOp.root)[i]].Name
                # heap.nodes[Elems(heap, treeOp.root)[j]].Name

\* C4: the node objects and child arrays of a clone are all allocated by the
\* Clone call, and none of them belongs to the tree that was cloned.
C4_CloneDisjoint ==
    treeOp.op = "Clone" =>
        /\ Reach(heap, treeOp.dst) \cap Reach(heap, treeOp.root) = {}
        /\ ReachArrs(heap, treeOp.dst) \cap ReachArrs(heap, treeOp.root) = {}
        /\ \A a \in Reach(heap, treeOp.dst) : a > treeOp.nodesBefore
        /\ \A k \in ReachArrs(heap, treeOp.dst) : k > treeOp.arrsBefore
        /\ Cardinality(Reach(heap, treeOp.dst)) = Cardinality(Reach(heap, treeOp.root))

\* a tree with two child arrays, a folder inside a folder, was cloned
C4_Witness ==
    /\ treeOp.op = "Clone"
    /\ Cardinality(ReachArrs(heap, treeOp.root)) >= 2
    /\ Cardinality(ReachArrs(heap, treeOp.dst)) >= 2

\* the number of line ends in a text
RECURSIVE CountNL(_)
CountNL(s) ==
    IF s = <<>> THEN 0
    ELSE (IF Head(s) = "\n" THEN 1 ELSE 0) + CountNL(Tail(s))

\* C5: when the sink rejects a write during WriteEntry, at whatever node, no
\* write is attempted after it and WriteEntry returns the sink's error;
\* WriteEntry returns nil only if the line of every node was written.
C5_AbortOnWriteError ==
    treeOp.op = "WriteEntry" =>
        LET w == treeOp.sink
            n == Size(heap, treeOp.root)
        IN  /\ w.rejected => (treeOp.err = ErrOf(w) /\ w.writes = w.failAt
                              /\ CountNL(w.out) = w.failAt - 1)
            /\ treeOp.err = 0 => (~w.rejected /\ w.writes = n /\ CountNL(w.out) = n)

\* the write of a node two levels down was rejected, with a node still to come
C5_Witness ==
    /\ treeOp.op = "WriteEntry"
    /\ treeOp.sink.rejected
    /\ treeOp.sink.failAt = 3
    /\ Size(heap, treeOp.root) = 4
    /\ Len(Elems(heap, treeOp.root)) = 2
    /\ Elems(heap, Elems(heap, treeOp.root)[1]) # <<>>
    /\ treeOp.err # 0

\* the nodes of the tree rooted at a in pre-order, each with its depth
RECURSIVE PreOrder(_, _, _)
RECURSIVE PreOrderAll(_, _, _, _)
PreOrderAll(h, kids, i, d) ==
    IF i > Len(kids) THEN <<>>
    ELSE PreOrder(h, kids[i], d) \o PreOrderAll(h, kids, i + 1, d)
PreOrder(h, a, d) == <<[node |-> a, depth |-> d]>> \o PreOrderAll(h, Elems(h, a), 1, d + 1)

\* the lines of a text: the runs of characters each line end closes
RECURSIVE Lines(_, _)
Lines(s, cur) ==
    IF s = <<>> THEN (IF cur = <<>> THEN <<>> ELSE <<cur>>)
    ELSE IF Head(s) = "\n" THEN <<cur>> \o Lines(Tail(s), <<>>)
    ELSE Lines(Tail(s), Append(cur, Head(s)))

\* C6: on a sink that accepts every write, WriteEntry at level L writes one
\* line for each node, in pre-order, each line being 4 * depth spaces and then
\* the node's name, depth being L plus the node's distance from the root.
C6_PreOrderIndent ==
    (treeOp.op = "WriteEntry" /\ treeOp.sink.failAt = 0) =>
        LET ls == Lines(treeOp.sink.out, <<>>)
            po == PreOrder(heap, treeOp.root, treeOp.level)
        IN  /\ Len(ls) = Len(po)
            /\ treeOp.sink.out # <<>> /\ treeOp.sink.out[Len(treeOp.sink.out)] = "\n"
            /\ \A i \in 1..Len(po) :
                  LET name == heap.nodes[po[i].node].Name
                      ind == 4 * po[i].depth
                  IN  /\ Len(ls[i]) = ind + Len(name)
                      /\ \A j \in 1..ind : ls[i][j] = " "
                      /\ \A j \in 1..Len(name) : ls[i][ind + j] = name[j]

\* a folder holding a file and a folder with a file was rendered whole from level 1
C6_Witness ==
    /\ treeOp.op = "WriteEntry"
    /\ treeOp.sink.failAt = 0
    /\ treeOp.level = 1
    /\ Len(Elems(heap, treeOp.root)) = 2
    /\ heap.nodes[Elems(heap, treeOp.root)[1]].kind = "File"
    /\ Elems(heap, Elems(heap, treeOp.root)[2]) # <<>>
    /\ CountNL(treeOp.sink.out) = 4

KnownProviders == {"google", "yandex"}

\* the provider's capitalised name
Capitalised(p) == IF p = "google" THEN "Google" ELSE "Yandex"

\* o.String() on a product
ProductString(o) ==
    IF o.type = "Customer" THEN CustomerString(o) ELSE SellerString(o)

\* C7: AuthFactory called with a string other than "google" and "yandex"
\* panics and returns no Provider; the program holds no Provider made from
\* such a string.
C7_UnknownProviderPanics ==
    /\ (authOp.fn = "AuthFactory" /\ authOp.arg \notin KnownProviders) =>
          (authOp.panicked /\ authOp.type = "none")
    /\ \A f \in providers : f.arg \in KnownProviders

\* AuthFactory was called with "Google" and panicked
C7_Witness ==
    /\ authOp.fn = "AuthFactory"
    /\ authOp.arg = "Google"
    /\ authOp.panicked

\* C8: a product of the factory for provider p renders as "Customer: <P>
\* Customer" (NewCustomer) or "Seller: <P> Seller" (NewSeller), <P> being p
\* capitalised, and every call returns an object allocated by that call.
C8_ProductsOfOwnProvider ==
    /\ \A i \in 1..Len(products) :
          LET o == products[i].obj
              P == Capitalised(products[i].by.arg)
          IN  /\ products[i].by.arg \in KnownProviders
              /\ ProductString(o) = o.type \o ": " \o P \o " " \o o.type
    /\ authOp.fn = "NewCustomer" =>
          (authOp.addr > authOp.before /\ products[authOp.addr].obj.type = "Customer"
           /\ products[authOp.addr].by.arg = authOp.arg)
    /\ authOp.fn = "NewSeller" =>
          (authOp.addr > authOp.before /\ products[authOp.addr].obj.type = "Seller"
           /\ products[authOp.addr].by.arg = authOp.arg)

\* both factories have made a customer and a seller
C8_Witness ==
    /\ Len(products) = 4
    /\ \A p \in KnownProviders, t \in {"Customer", "Seller"} :
          \E i \in 1..Len(products) :
              products[i].by.arg = p /\ products[i].obj.type = t

====
